---------------------------- MODULE Spec2Model ----------------------------
(***************************************************************************)
(* A model of morse.py: the Morse alphabet table, encode,                  *)
(* decode_all_possible, segment_words and the ranking loop of the decode   *)
(* command.                                                                *)
(*                                                                         *)
(* A Python str is a sequence of one-character strings.  A float is an     *)
(* exact non-negative rational <<numerator, denominator>> in lowest terms  *)
(* (rounding and underflow of IEEE doubles are not modelled).              *)
(***************************************************************************)
EXTENDS Integers, Sequences, FiniteSets, TLC

(***************************************************************************)
(* Bounds of the model.                                                    *)
(***************************************************************************)
\* longest code string handed to decode_all_possible as a library call
MaxCode == 5
\* longest message handed to encode
MaxText == 3
\* longest letter sequence handed to segment_words as a library call
MaxLetters == 3
\* longest raw input typed at the prompt of the decode command
MaxInput == 4

(***************************************************************************)
(* Strings.                                                                *)
(***************************************************************************)
RECURSIVE StringsUpTo(_, _)
\* all strings over the characters cs of length at most n
StringsUpTo(cs, n) ==
    IF n = 0 THEN { <<>> }
    ELSE LET shorter == StringsUpTo(cs, n - 1)
         IN  shorter \cup { Append(w, c) : w \in shorter, c \in cs }

\* str.startswith
StartsWith(str, prefix) ==
    /\ Len(prefix) <= Len(str)
    /\ SubSeq(str, 1, Len(prefix)) = prefix

\* str[n:]
Drop(str, n) == SubSeq(str, n + 1, Len(str))

\* str[:n]
Take(str, n) == SubSeq(str, 1, n)

RECURSIVE Join(_, _)
\* sep.join(parts)
Join(sep, parts) ==
    IF Len(parts) = 0 THEN <<>>
    ELSE IF Len(parts) = 1 THEN parts[1]
    ELSE parts[1] \o sep \o Join(sep, Tail(parts))

(***************************************************************************)
(* Floats, as exact rationals.                                             *)
(***************************************************************************)
RECURSIVE GCD(_, _)
GCD(a, b) == IF b = 0 THEN a ELSE GCD(b, a % b)

\* the rational n/d in lowest terms (the operands are evaluated once)
Rat(n, d) ==
    CHOOSE q \in { << a \div g, b \div g >> :
                     << a, b, g >> \in { << n, d, GCD(n, d) >> } } : TRUE

\* the likelihoods added where the code multiplies them
FAdd(x, y) ==
    CHOOSE q \in { Rat(a[1] * b[2] + b[1] * a[2], a[2] * b[2]) :
                     a \in { x }, b \in { y } } : TRUE

\* x * y
FMul(x, y) ==
    CHOOSE q \in { Rat(a[1] * b[1], a[2] * b[2]) : a \in { x }, b \in { y } } : TRUE

\* x > y
FGt(x, y) == x[1] * y[2] > y[1] * x[2]

\* the literals 0.0 and 1.0
FZero == <<0, 1>>
FOne == <<1, 1>>

(***************************************************************************)
(* The alphabet table, in the order the dict lists (and iterates) it.      *)
(***************************************************************************)
Letters ==
    << "A", "B", "C", "D", "E", "F", "G", "H", "I", "J", "K", "L", "M",
       "N", "O", "P", "Q", "R", "S", "T", "U", "V", "W", "X", "Y", "Z" >>

ALPHABET ==
    [ A |-> <<".", "-">>,            B |-> <<"-", ".", ".", ".">>,
      C |-> <<"-", ".", "-", ".">>,  D |-> <<"-", ".", ".">>,
      E |-> <<".">>,                 F |-> <<".", ".", "-", ".">>,
      G |-> <<"-", "-", ".">>,       H |-> <<".", ".", ".", ".">>,
      I |-> <<".", ".">>,            J |-> <<".", "-", "-", "-">>,
      K |-> <<"-", ".", "-">>,       L |-> <<".", "-", ".", ".">>,
      M |-> <<"-", "-">>,            N |-> <<"-", ".">>,
      O |-> <<"-", "-", "-">>,       P |-> <<".", "-", "-", ".">>,
      Q |-> <<"-", "-", ".", "-">>,  R |-> <<".", "-", ".">>,
      S |-> <<".", ".", ".">>,       T |-> <<"-">>,
      U |-> <<".", ".", "-">>,       V |-> <<".", ".", ".", "-">>,
      W |-> <<".", "-", "-">>,       X |-> <<"-", ".", ".", "-">>,
      Y |-> <<"-", ".", "-", "-">>,  Z |-> <<"-", "-", ".", ".">> ]

ONE_LETTER == { <<"A">>, <<"I">> }

(***************************************************************************)
(* The characters of the model's messages, with str.upper and unidecode    *)
(* on them.                                                                *)
(***************************************************************************)
\* "e'" and "E'" stand for e and E with an acute accent, "AE" for the ligature
Chars == { "a", "A", "e", "E", "t", "e'", "E'", "AE", "1", " ", "!" }

\* the message not upper-cased
UpperMissing(c) == c

\* str.upper, one character at a time
Upper(c) ==
    CASE c = "a" -> "A"
      [] c = "e" -> "E"
      [] c = "t" -> "T"
      [] c = "e'" -> "E'"
      [] OTHER -> c

\* unidecode(letter): the ASCII transliteration, a string
unidecode(c) ==
    CASE c = "E'" -> <<"E">>
      [] c = "e'" -> <<"e">>
      [] c = "AE" -> <<"A", "E">>
      [] OTHER -> <<c>>

\* whether ALPHABET[key] finds an entry (otherwise it raises KeyError)
HasEntry(key) == Len(key) = 1 /\ key[1] \in DOMAIN ALPHABET

(***************************************************************************)
(* State.                                                                  *)
(***************************************************************************)
VARIABLES
    freq,              \* the frequency oracle behind word_frequency(., 'en')
    call,              \* a library call: the function and its arguments
    ret,               \* what the library call gave back
    pc,                \* position of the decode command
    segmenter,         \* --segmenter option
    wordsegment,       \* the behaviour of the external wordsegment.segment
    wordset,           \* get_word_list()
    encoded,           \* decode's local: the prompt's answer, then sanitized
    dstack,            \* frames of the running decode_all_possible generator
    message,           \* loop variable of decode's outer for
    sstack,            \* frames of the running segment_words generator
    max_likelihood,
    max_segmentation,
    i,
    s,
    observed           \* history: the candidates scored so far, in order

vars == << freq, call, ret, pc, segmenter, wordsegment, wordset, encoded,
           dstack, message, sstack, max_likelihood, max_segmentation, i, s,
           observed >>

(***************************************************************************)
(* encode                                                                  *)
(***************************************************************************)
\* message.upper()
UpperStr(str) == [ j \in 1..Len(str) |-> Upper(str[j]) ]

encode(msg, spaces) ==
    LET sep   == IF spaces THEN <<" ">> ELSE <<>>
        up    == UpperStr(msg)
        keys  == [ j \in 1..Len(up) |-> unidecode(up[j]) ]
    IN  IF \E j \in 1..Len(keys) : ~HasEntry(keys[j])
        THEN [ status |-> "KeyError", value |-> <<>> ]
        ELSE [ status |-> "returned",
               value  |-> Join(sep, [ j \in 1..Len(keys) |-> ALPHABET[keys[j][1]] ]) ]

(***************************************************************************)
(* decode_all_possible: the strings the generator yields, in order.        *)
(***************************************************************************)
\* the condition of the if inside the for loop
Matches(str, letter) == StartsWith(str, ALPHABET[letter])

\* the recursive call made on encoded[1:]
DecodeRestOneSymbol(str, letter) == Drop(str, 1)

\* the recursive call made on encoded itself
DecodeRestNothing(str, letter) == str

\* the argument of the recursive call
DecodeRest(str, letter) == Drop(str, Len(ALPHABET[letter]))

Min(set) == CHOOSE x \in set : \A y \in set : x <= y

\* the table entries after the k-th whose code the string starts with
MatchingAfter(str, k) ==
    { j \in (k + 1)..Len(Letters) : Matches(str, Letters[j]) }

RECURSIVE decode_all_possible(_)
RECURSIVE DecodeLoop(_, _)
\* what the for loop yields after the k-th table entry: the entries that do
\* not match yield nothing, the next that matches yields its letter before
\* every string of the recursive call
DecodeLoop(str, k) ==
    IF MatchingAfter(str, k) = {} THEN <<>>
    ELSE LET m      == Min(MatchingAfter(str, k))
             letter == Letters[m]
             rests  == decode_all_possible(DecodeRest(str, letter))
         IN  [ j \in 1..Len(rests) |-> <<letter>> \o rests[j] ]
               \o DecodeLoop(str, m)

\* a string that no code starts treated like the empty one
DecodeOrGiveUp(str) ==
    IF Len(str) = 0 \/ DecodeLoop(str, 0) = <<>> THEN << <<>> >>
    ELSE DecodeLoop(str, 0)

decode_all_possible(str) ==
    IF Len(str) = 0 THEN << <<>> >> ELSE DecodeLoop(str, 0)

(***************************************************************************)
(* segment_words: the (segmentation, likelihood) pairs the generator       *)
(* yields, in order.                                                       *)
(***************************************************************************)
word_frequency(word) == IF word \in DOMAIN freq THEN freq[word] ELSE FZero

\* the one-letter restriction left out
AcceptedAnyLength(wordlist, word) == word \in wordlist

\* the two ifs inside the for loop: the word is taken
Accepted(wordlist, word) ==
    /\ ~(Len(word) = 1 /\ word \notin ONE_LETTER)
    /\ word \in wordlist

\* the word joined to the rest without the space
CombineUnspaced(word, pair) ==
    << word \o pair[1], FMul(pair[2], word_frequency(word)) >>

\* the pair yielded for the word and a pair of the recursive call
Combine(word, pair) ==
    << word \o <<" ">> \o pair[1], FMul(pair[2], word_frequency(word)) >>

RECURSIVE segment_words(_, _)
RECURSIVE SegmentLoop(_, _, _)
\* what the for loop yields from i = k on
SegmentLoop(wordlist, msg, k) ==
    IF k > Len(msg) THEN <<>>
    ELSE LET word  == Take(msg, k)
             rests == IF Accepted(wordlist, word)
                      THEN segment_words(wordlist, Drop(msg, k))
                      ELSE <<>>
         IN  [ j \in 1..Len(rests) |-> Combine(word, rests[j]) ]
               \o SegmentLoop(wordlist, msg, k + 1)

segment_words(wordlist, msg) ==
    IF Len(msg) = 0 THEN << << <<>>, FOne >> >> ELSE SegmentLoop(wordlist, msg, 1)

(***************************************************************************)
(* The environment: the words the word source and the frequency oracle     *)
(* know of, and the oracle's answers.                                      *)
(***************************************************************************)
Vocabulary ==
    { <<"A">>, <<"I">>, <<"T">>, <<"A", "T">>, <<"E", "T">>, <<"T", "A">> }

\* A and ET tie
FreqTies ==
    <<"A">> :> Rat(1, 4) @@ <<"I">> :> Rat(1, 8) @@ <<"T">> :> Rat(1, 2) @@
    <<"A", "T">> :> Rat(1, 16) @@ <<"E", "T">> :> Rat(1, 4) @@
    <<"T", "A">> :> Rat(1, 32)

\* some words the oracle has never seen, one it always sees
FreqZeros ==
    <<"A">> :> Rat(0, 1) @@ <<"I">> :> Rat(1, 2) @@ <<"T">> :> Rat(0, 1) @@
    <<"A", "T">> :> Rat(0, 1) @@ <<"E", "T">> :> Rat(0, 1) @@
    <<"T", "A">> :> Rat(1, 1)

\* the later candidate is the likelier one
FreqRising ==
    <<"A">> :> Rat(1, 8) @@ <<"I">> :> Rat(1, 4) @@ <<"T">> :> Rat(1, 16) @@
    <<"A", "T">> :> Rat(1, 2) @@ <<"E", "T">> :> Rat(1, 3) @@
    <<"T", "A">> :> Rat(3, 4)

FreqTables == { FreqTies, FreqZeros, FreqRising }

\* characters of the code strings tried: the two symbols and a foreign one
CodeChars == { ".", "-", "/" }

\* letters of the letter sequences tried
TextLetters == { "A", "I", "T", "E" }

(***************************************************************************)
(* The three functions called on their own.                                *)
(***************************************************************************)
NoCall == [ fn |-> "none", text |-> <<>>, spaces |-> FALSE, wordlist |-> {} ]
NoRet == [ status |-> "none", value |-> <<>> ]

\* the decode command's variables while it does not run
CommandIdle ==
    /\ pc = "off"
    /\ segmenter = "freq"
    /\ wordsegment = "whole"
    /\ wordset = {}
    /\ encoded = <<>>
    /\ dstack = <<>>
    /\ message = <<>>
    /\ sstack = <<>>
    /\ max_likelihood = FZero
    /\ max_segmentation = <<>>
    /\ i = 0
    /\ s = 0
    /\ observed = <<>>

commandVars ==
    << pc, segmenter, wordsegment, wordset, encoded, dstack, message, sstack,
       max_likelihood, max_segmentation, i, s, observed >>

InitLib ==
    /\ freq \in FreqTables
    /\ call = NoCall
    /\ ret = NoRet
    /\ CommandIdle

CallEncode ==
    /\ call.fn = "none"
    /\ \E msg \in StringsUpTo(Chars, MaxText), spaces \in BOOLEAN :
          /\ call' = [ fn |-> "encode", text |-> msg, spaces |-> spaces,
                       wordlist |-> {} ]
          /\ ret' = encode(msg, spaces)
    /\ UNCHANGED << freq, commandVars >>

CallDecodeAllPossible ==
    /\ call.fn = "none"
    /\ \E str \in StringsUpTo(CodeChars, MaxCode) :
          /\ call' = [ fn |-> "decode_all_possible", text |-> str,
                       spaces |-> FALSE, wordlist |-> {} ]
          /\ ret' = [ status |-> "returned", value |-> decode_all_possible(str) ]
    /\ UNCHANGED << freq, commandVars >>

CallSegmentWords ==
    /\ call.fn = "none"
    /\ \E wordlist \in SUBSET Vocabulary, msg \in StringsUpTo(TextLetters, MaxLetters) :
          /\ call' = [ fn |-> "segment_words", text |-> msg, spaces |-> FALSE,
                       wordlist |-> wordlist ]
          /\ ret' = [ status |-> "returned", value |-> segment_words(wordlist, msg) ]
    /\ UNCHANGED << freq, commandVars >>

\* the caller is done with the result
Return ==
    /\ call.fn # "none"
    /\ call' = NoCall
    /\ ret' = NoRet
    /\ UNCHANGED << freq, commandVars >>

NextLib == CallEncode \/ CallDecodeAllPossible \/ CallSegmentWords \/ Return

SpecLib == InitLib /\ [][NextLib]_vars

(***************************************************************************)
(* The decode command.  The two generators run as stacks of frames, one    *)
(* frame per active call: str is the call's argument and k the position    *)
(* of its for loop (in a call on the empty string, whether the one yield   *)
(* has happened).  The last frame is the innermost call.                   *)
(***************************************************************************)
\* what the prompt can be answered with: click asks again on an empty answer
InputChars == { ".", "-", " " }
Answers == StringsUpTo(InputChars, MaxInput) \ { <<>> }

\* the word lists get_word_list() may give
WordSets == { {}, Vocabulary, { <<"E", "T">>, <<"T">> } }

\* what wordsegment.segment may do: give the message back as one word, or
\* every letter as a word of its own
Policies == { "whole", "letters" }

\* wordsegment.segment(message); the case of the words is kept
Segment(policy, msg) ==
    IF policy = "whole"
    THEN (IF Len(msg) = 0 THEN <<>> ELSE << msg >>)
    ELSE [ j \in 1..Len(msg) |-> << msg[j] >> ]

RECURSIVE Keep(_, _)
\* re.sub of every character outside cs by ''
Keep(cs, str) ==
    IF Len(str) = 0 THEN <<>>
    ELSE (IF Head(str) \in cs THEN << Head(str) >> ELSE <<>>) \o Keep(cs, Tail(str))

\* the answer passed on as typed
SanitizeNothing(str) == str

\* re.sub(r'[^.-]', '', encoded)
Sanitize(str) == Keep({ ".", "-" }, str)

Frame(str) == [ str |-> str, k |-> 0 ]
Top(stack) == stack[Len(stack)]
Pop(stack) == SubSeq(stack, 1, Len(stack) - 1)
SetK(stack, k) == [ stack EXCEPT ![Len(stack)].k = k ]
\* the values of i after k at which segment_words takes the word
AcceptedAfter(wordlist, str, k) ==
    { j \in (k + 1)..Len(str) : Accepted(wordlist, Take(str, j)) }

\* a frame whose generator has nothing more to yield
DecodeExhausted(frame) ==
    IF Len(frame.str) = 0 THEN frame.k = 1
    ELSE MatchingAfter(frame.str, frame.k) = {}

SegmentExhausted(frame) ==
    IF Len(frame.str) = 0 THEN frame.k = 1
    ELSE AcceptedAfter(wordset, frame.str, frame.k) = {}

\* the string the outermost call yields when the innermost yields '':
\* each call above prepends its letter
YieldedMessage(stack) ==
    [ j \in 1..(Len(stack) - 1) |-> Letters[stack[j].k] ]

RECURSIVE YieldedPair(_, _)
\* the pair the call in frame j yields when the innermost yields ('', 1.0)
YieldedPair(stack, j) ==
    IF j = Len(stack) THEN << <<>>, FOne >>
    ELSE Combine(Take(stack[j].str, stack[j].k), YieldedPair(stack, j + 1))

\* the comparison made with >=
BetterOrEqual(likelihood, best) == ~FGt(best, likelihood)

\* if likelihood > max_likelihood
Better(likelihood, best) == FGt(likelihood, best)

InitCommand ==
    /\ freq \in FreqTables
    /\ call = NoCall
    /\ ret = NoRet
    /\ pc = "prompt"
    /\ segmenter \in { "freq", "wordsegment" }
    /\ wordsegment \in (IF segmenter = "freq" THEN { "whole" } ELSE Policies)
    /\ wordset = {}
    /\ encoded = <<>>
    /\ dstack = <<>>
    /\ message = <<>>
    /\ sstack = <<>>
    /\ max_likelihood = FZero
    /\ max_segmentation = <<>>
    /\ i = 0
    /\ s = 0
    /\ observed = <<>>

\* encoded = click.prompt(...)
Prompt ==
    /\ pc = "prompt"
    /\ encoded' \in Answers
    /\ pc' = "setup"
    /\ UNCHANGED << freq, call, ret, segmenter, wordsegment, wordset, dstack,
                    message, sstack, max_likelihood, max_segmentation, i, s,
                    observed >>

\* from the re.sub to the creation of the generator the for loop runs over
Setup ==
    /\ pc = "setup"
    /\ encoded' = Sanitize(encoded)
    /\ wordset' \in WordSets
    /\ max_likelihood' = FZero
    /\ max_segmentation' = <<>>
    /\ i' = 0
    /\ s' = 0
    /\ dstack' = << Frame(encoded') >>
    /\ pc' = "next_message"
    /\ UNCHANGED << freq, call, ret, segmenter, wordsegment, message, sstack,
                    observed >>

\* decode_all_possible: the for loop reaches a matching entry and calls itself
DecodeCall ==
    /\ pc = "next_message"
    /\ dstack # <<>>
    /\ LET top == Top(dstack) IN
         /\ Len(top.str) # 0
         /\ MatchingAfter(top.str, top.k) # {}
         /\ LET k == Min(MatchingAfter(top.str, top.k)) IN
              dstack' = Append(SetK(dstack, k), Frame(DecodeRest(top.str, Letters[k])))
    /\ UNCHANGED << freq, call, ret, pc, segmenter, wordsegment, wordset,
                    encoded, message, sstack, max_likelihood, max_segmentation,
                    i, s, observed >>

\* decode_all_possible yields: the innermost call '', every call above it
\* letter + rest; decode's loop takes the message and counts it
DecodeYield ==
    /\ pc = "next_message"
    /\ dstack # <<>>
    /\ Len(Top(dstack).str) = 0
    /\ Top(dstack).k = 0
    /\ dstack' = SetK(dstack, 1)
    /\ message' = YieldedMessage(dstack)
    /\ i' = i + 1
    /\ pc' = "body"
    /\ UNCHANGED << freq, call, ret, segmenter, wordsegment, wordset, encoded,
                    sstack, max_likelihood, max_segmentation, s, observed >>

\* a call of decode_all_possible ends; when it is the outermost, so does
\* decode's loop, and the summary is printed
DecodeReturn ==
    /\ pc = "next_message"
    /\ dstack # <<>>
    /\ DecodeExhausted(Top(dstack))
    /\ dstack' = Pop(dstack)
    /\ pc' = IF Len(dstack) = 1 THEN "done" ELSE pc
    /\ UNCHANGED << freq, call, ret, segmenter, wordsegment, wordset, encoded,
                    message, sstack, max_likelihood, max_segmentation, i, s,
                    observed >>

\* segmenter == 'freq': the inner for loop starts
BodyFreq ==
    /\ pc = "body"
    /\ segmenter = "freq"
    /\ sstack' = << Frame(message) >>
    /\ pc' = "next_segmentation"
    /\ UNCHANGED << freq, call, ret, segmenter, wordsegment, wordset, encoded,
                    dstack, message, max_likelihood, max_segmentation, i, s,
                    observed >>

RECURSIVE Product(_, _)
\* freq after the loop over segments, started at acc
Product(acc, segments) ==
    IF Len(segments) = 0 THEN acc
    ELSE Product(FMul(acc, word_frequency(Head(segments))), Tail(segments))

\* the candidate is counted and compared with the best so far
Score(segmentation, likelihood) ==
    /\ s' = s + 1
    /\ observed' = Append(observed, << segmentation, likelihood >>)
    /\ IF Better(likelihood, max_likelihood)
       THEN /\ max_likelihood' = likelihood
            /\ max_segmentation' = segmentation
       ELSE UNCHANGED << max_likelihood, max_segmentation >>

\* the else branch: the external segmenter's one answer is scored
BodyWordsegment ==
    /\ pc = "body"
    /\ segmenter # "freq"
    /\ LET segments == Segment(wordsegment, message) IN
         Score(Join(<<" ">>, segments), Product(FOne, segments))
    /\ pc' = "next_message"
    /\ UNCHANGED << freq, call, ret, segmenter, wordsegment, wordset, encoded,
                    dstack, message, sstack, i >>

\* segment_words: the for loop reaches a word it takes and calls itself
SegmentCall ==
    /\ pc = "next_segmentation"
    /\ sstack # <<>>
    /\ LET top == Top(sstack) IN
         /\ Len(top.str) # 0
         /\ AcceptedAfter(wordset, top.str, top.k) # {}
         /\ LET k == Min(AcceptedAfter(wordset, top.str, top.k)) IN
              sstack' = Append(SetK(sstack, k), Frame(Drop(top.str, k)))
    /\ UNCHANGED << freq, call, ret, pc, segmenter, wordsegment, wordset,
                    encoded, dstack, message, max_likelihood, max_segmentation,
                    i, s, observed >>

\* segment_words yields: the innermost call ('', 1.0), every call above it
\* its word, a space and the rest; decode's inner loop scores the pair
SegmentYield ==
    /\ pc = "next_segmentation"
    /\ sstack # <<>>
    /\ Len(Top(sstack).str) = 0
    /\ Top(sstack).k = 0
    /\ sstack' = SetK(sstack, 1)
    /\ LET pair == YieldedPair(sstack, 1) IN Score(pair[1], pair[2])
    /\ UNCHANGED << freq, call, ret, pc, segmenter, wordsegment, wordset,
                    encoded, dstack, message, i >>

\* a call of segment_words ends; when it is the outermost, decode's inner
\* loop ends and the outer one asks for the next message
SegmentReturn ==
    /\ pc = "next_segmentation"
    /\ sstack # <<>>
    /\ SegmentExhausted(Top(sstack))
    /\ sstack' = Pop(sstack)
    /\ pc' = IF Len(sstack) = 1 THEN "next_message" ELSE pc
    /\ UNCHANGED << freq, call, ret, segmenter, wordsegment, wordset, encoded,
                    dstack, message, max_likelihood, max_segmentation, i, s,
                    observed >>

NextCommand ==
    \/ Prompt
    \/ Setup
    \/ DecodeCall
    \/ DecodeYield
    \/ DecodeReturn
    \/ BodyFreq
    \/ BodyWordsegment
    \/ SegmentCall
    \/ SegmentYield
    \/ SegmentReturn

\* the interpreter keeps running the command until it has printed the summary
SpecCommand == InitCommand /\ [][NextCommand]_vars /\ WF_vars(NextCommand)

(***************************************************************************)
(* Vocabulary of the properties: the ways of cutting a string.             *)
(***************************************************************************)
Range(seq) == { seq[j] : j \in 1..Len(seq) }

RECURSIVE Ascending(_)
\* the numbers of a set in ascending order
Ascending(set) ==
    IF set = {} THEN <<>>
    ELSE LET m == Min(set) IN << m >> \o Ascending(set \ { m })

\* a cut of str is a set of positions strictly inside it
Cuts(str) == SUBSET (1..(Len(str) - 1))

\* the consecutive non-empty pieces a cut makes of str
Pieces(str, cut) ==
    IF Len(str) = 0 THEN <<>>
    ELSE LET b == << 0 >> \o Ascending(cut) \o << Len(str) >>
         IN  [ j \in 1..(Len(b) - 1) |-> SubSeq(str, b[j] + 1, b[j + 1]) ]

\* the letters whose code is the piece
LettersCoded(piece) == { l \in DOMAIN ALPHABET : ALPHABET[l] = piece }

\* the cuts of a code string all of whose pieces are codes of the table
CodeCuts(str) ==
    { cut \in Cuts(str) :
        \A j \in 1..Len(Pieces(str, cut)) : LettersCoded(Pieces(str, cut)[j]) # {} }

\* the letter sequence a cut of a code string spells
Spelled(str, cut) ==
    LET ps == Pieces(str, cut)
    IN  [ j \in 1..Len(ps) |-> CHOOSE l \in LettersCoded(ps[j]) : TRUE ]

OverSymbols(str) == \A j \in 1..Len(str) : str[j] \in { ".", "-" }

\* the cuts of a letter sequence whose pieces are all words of the word
\* list, the one-letter pieces among A and I
WordCuts(wordlist, str) ==
    { cut \in Cuts(str) :
        \A j \in 1..Len(Pieces(str, cut)) :
            LET piece == Pieces(str, cut)[j]
            IN  /\ piece \in wordlist
                /\ Len(piece) = 1 => piece \in { <<"A">>, <<"I">> } }

RECURSIVE SpacedOut(_)
\* every piece followed by a space
SpacedOut(ps) ==
    IF Len(ps) = 0 THEN <<>> ELSE Head(ps) \o <<" ">> \o SpacedOut(Tail(ps))

RECURSIVE FreqProduct(_)
\* the product of the pieces' frequencies
FreqProduct(ps) ==
    IF Len(ps) = 0 THEN FOne
    ELSE FMul(word_frequency(Head(ps)), FreqProduct(Tail(ps)))

(***************************************************************************)
(* C1: for every code string S over '.' and '-', decode_all_possible(S)    *)
(* yields exactly the letter sequences whose separator-free encoding is    *)
(* S: every yielded string encodes back to S, every way of cutting S into  *)
(* codes of the table is yielded as the letters it spells, the code of a   *)
(* single letter decodes to (among others) that letter, and the empty      *)
(* string decodes to the single result ''.                                 *)
(***************************************************************************)
DecodeExact ==
    (call.fn = "decode_all_possible" /\ OverSymbols(call.text)) =>
        LET S == call.text
            yielded == ret.value
        IN  /\ \A j \in 1..Len(yielded) :
                 encode(yielded[j], FALSE) = [ status |-> "returned", value |-> S ]
            /\ \A cut \in CodeCuts(S) : Spelled(S, cut) \in Range(yielded)
            /\ \A l \in DOMAIN ALPHABET :
                 S = encode(<< l >>, TRUE).value => << l >> \in Range(yielded)
            /\ \A l \in DOMAIN ALPHABET : LettersCoded(ALPHABET[l]) = { l }
            /\ Len(S) = 0 => yielded = << <<>> >>

\* an ambiguous code string has been decoded: .-. is AE, EN, ETE and R
DecodeExactWitness ==
    /\ call.fn = "decode_all_possible"
    /\ call.text = << ".", "-", "." >>
    /\ Range(ret.value) =
         { <<"A", "E">>, <<"E", "N">>, <<"E", "T", "E">>, <<"R">> }

(***************************************************************************)
(* C6: an input string that no concatenation of alphabet codes covers      *)
(* completely (one with a character outside '.' and '-' in particular)     *)
(* makes decode_all_possible finish normally with zero results.            *)
(***************************************************************************)
UncoveredYieldsNothing ==
    (/\ call.fn = "decode_all_possible"
     /\ \/ CodeCuts(call.text) = {}
        \/ ~OverSymbols(call.text)) =>
        ret = [ status |-> "returned", value |-> <<>> ]

\* a string whose first symbols decode and whose last character is foreign
UncoveredWitness ==
    /\ call.fn = "decode_all_possible"
    /\ call.text = << ".", "-", "/" >>
    /\ CodeCuts(call.text) = {}
    /\ ret.value = <<>>

(***************************************************************************)
(* C2, as claimed: for a word W of the Dictionary, segment_words({W}, W)   *)
(* yields the segmentation W itself with likelihood frequency(W).          *)
(***************************************************************************)
OwnWordYieldsItself ==
    (call.fn = "segment_words" /\ call.wordlist = { call.text }) =>
        << call.text, word_frequency(call.text) >> \in Range(ret.value)

(***************************************************************************)
(* C2, amended: for a word W of the Dictionary that has two letters or     *)
(* more, or is A or I, segment_words({W}, W) yields exactly one pair: W    *)
(* followed by one space, with likelihood frequency(W); for any other      *)
(* one-letter W it yields nothing.                                         *)
(***************************************************************************)
OwnWordYieldsItselfSpaced ==
    (call.fn = "segment_words" /\ call.wordlist = { call.text }) =>
        LET W == call.text
        IN  IF Len(W) >= 2 \/ W \in { <<"A">>, <<"I">> }
            THEN ret.value = << << W \o <<" ">>, word_frequency(W) >> >>
            ELSE ret.value = <<>>

\* a two-letter word has been segmented against the word list holding it
OwnWordWitness ==
    /\ call.fn = "segment_words"
    /\ call.wordlist = { call.text }
    /\ call.text = <<"A", "T">>
    /\ Len(ret.value) = 1

(***************************************************************************)
(* C3: segment_words(wordlist, M) yields one result per way of cutting M   *)
(* into consecutive non-empty pieces that are all in the word list, the    *)
(* one-character pieces among A and I, and nothing else; a result is the   *)
(* pieces, each followed by a space, with the product of the pieces'       *)
(* frequencies; the empty M yields the one result ('', 1.0).               *)
(***************************************************************************)
SegmentationsAreWordCuts ==
    (call.fn = "segment_words") =>
        LET M == call.text
            cuts == WordCuts(call.wordlist, M)
        IN  /\ Range(ret.value) =
                 { << SpacedOut(Pieces(M, cut)), FreqProduct(Pieces(M, cut)) >> :
                     cut \in cuts }
            /\ Len(ret.value) = Cardinality(cuts)
            /\ Len(M) = 0 => ret.value = << << <<>>, FOne >> >>

\* a letter sequence with more than one segmentation: ATA is AT A and A TA
SegmentationsWitness ==
    /\ call.fn = "segment_words"
    /\ call.text = <<"A", "T", "A">>
    /\ call.wordlist = Vocabulary
    /\ Len(ret.value) = 2

(***************************************************************************)
(* C9: with every word's frequency in [0, 1], no result of segment_words   *)
(* has a likelihood above 1.0, and the pair yielded for an accepted word   *)
(* and a segmentation of the rest has a likelihood no greater than that    *)
(* segmentation's.                                                         *)
(***************************************************************************)
LikelihoodNeverGrows ==
    (/\ call.fn = "segment_words"
     /\ \A w \in DOMAIN freq : ~FGt(freq[w], FOne) /\ ~FGt(FZero, freq[w])) =>
        /\ \A j \in 1..Len(ret.value) : ~FGt(ret.value[j][2], FOne)
        /\ \A k \in 1..Len(call.text) :
             Accepted(call.wordlist, Take(call.text, k)) =>
                 LET rests == segment_words(call.wordlist, Drop(call.text, k))
                 IN  \A j \in 1..Len(rests) :
                       LET longer == Combine(Take(call.text, k), rests[j])
                       IN  /\ longer \in Range(ret.value)
                           /\ ~FGt(longer[2], rests[j][2])

\* a segmentation of two words whose likelihood is below its last word's
LikelihoodWitness ==
    /\ call.fn = "segment_words"
    /\ call.text = <<"A", "T", "A">>
    /\ \E j \in 1..Len(ret.value) :
         /\ ret.value[j][1] = <<"A", " ", "T", "A", " ">>
         /\ FGt(word_frequency(<<"T", "A">>), ret.value[j][2])
         /\ FGt(ret.value[j][2], FZero)

(***************************************************************************)
(* C8: encode fails with a KeyError (the UnknownSymbol error) and gives    *)
(* nothing back when the message has a character that, upper-cased and     *)
(* stripped of its accent, has no entry in the table; otherwise it gives   *)
(* the codes of the upper-cased letters in order (a space between them     *)
(* unless spaces is off), so encode("a") and encode("A") both give ".-".   *)
(***************************************************************************)
\* the letter each character of the model stands for, where it stands for one
LetterOf ==
    "a" :> "A" @@ "A" :> "A" @@ "e" :> "E" @@ "E" :> "E" @@ "t" :> "T" @@
    "e'" :> "E" @@ "E'" :> "E"

EncodeKnownOrFail ==
    (call.fn = "encode") =>
        LET msg == call.text
        IN  /\ IF \E j \in 1..Len(msg) : msg[j] \notin DOMAIN LetterOf
               THEN ret = [ status |-> "KeyError", value |-> <<>> ]
               ELSE /\ ret.status = "returned"
                    /\ ret.value =
                         Join(IF call.spaces THEN <<" ">> ELSE <<>>,
                              [ j \in 1..Len(msg) |-> ALPHABET[LetterOf[msg[j]]] ])
            /\ msg \in { <<"a">>, <<"A">> } =>
                 ret = [ status |-> "returned", value |-> << ".", "-" >> ]

\* a message whose first character has a code and whose second has none
EncodeWitness ==
    /\ call.fn = "encode"
    /\ call.text = << "a", "1" >>
    /\ ret.status = "KeyError"

(***************************************************************************)
(* Vocabulary of the properties of the decode command.                     *)
(***************************************************************************)
Ranking == pc \in { "next_message", "body", "next_segmentation", "done" }

\* the place in a history of candidates of the earliest one that none beats
EarliestBest(history) ==
    Min({ j \in 1..Len(history) :
            \A m \in 1..Len(history) : ~FGt(history[m][2], history[j][2]) })

\* what max_segmentation and max_likelihood are before any candidate
NoResult == << <<>>, FZero >>

(***************************************************************************)
(* C4, as claimed: after every candidate processed by the ranking loop     *)
(* (either segmenter mode), the pair (max_segmentation, max_likelihood) is *)
(* the earliest-observed candidate attaining the greatest likelihood seen  *)
(* so far.                                                                 *)
(***************************************************************************)
BestIsEarliestGreatest ==
    (Ranking /\ observed # <<>>) =>
        << max_segmentation, max_likelihood >> = observed[EarliestBest(observed)]

(***************************************************************************)
(* C4, amended: the best result is overwritten exactly when a candidate's  *)
(* likelihood is strictly greater than max_likelihood, max_likelihood      *)
(* never decreases, and after every candidate processed the pair           *)
(* (max_segmentation, max_likelihood) is the earliest-observed candidate   *)
(* attaining the greatest likelihood seen so far when that likelihood is   *)
(* above 0.0, and still the initial ('', 0.0) while no candidate with a    *)
(* likelihood above 0.0 has been seen.                                     *)
(***************************************************************************)
SomePositive(history) == \E j \in 1..Len(history) : FGt(history[j][2], FZero)

BestIsEarliestGreatestPositive ==
    /\ [](Ranking =>
            << max_segmentation, max_likelihood >> =
                IF SomePositive(observed) THEN observed[EarliestBest(observed)]
                ELSE NoResult)
    /\ [][Ranking =>
            /\ ~FGt(max_likelihood, max_likelihood')
            /\ (<< max_segmentation, max_likelihood >>'
                   # << max_segmentation, max_likelihood >>)
                 <=> /\ Len(observed') = Len(observed) + 1
                     /\ FGt(observed'[Len(observed')][2], max_likelihood)]_vars

\* two candidates of the same likelihood above 0.0 were scored, A and then
\* ET, and the first is the best result
BestIsEarliestWitness ==
    /\ Ranking
    /\ Len(observed) = 2
    /\ observed[1] = << <<"A", " ">>, Rat(1, 4) >>
    /\ observed[2] = << <<"E", "T", " ">>, Rat(1, 4) >>
    /\ << max_segmentation, max_likelihood >> = observed[1]

(***************************************************************************)
(* C5, as claimed: the final pair (max_segmentation, max_likelihood) of a  *)
(* run that produced no candidate at all differs from the final pair of    *)
(* every run that produced and scored a candidate, those of likelihood 0.0 *)
(* included.  A run without a candidate ends with the pair it started      *)
(* with, so every run with a candidate has to end with another one.        *)
(***************************************************************************)
NoResultIsDistinct ==
    (pc = "done") =>
        /\ s = 0 => << max_segmentation, max_likelihood >> = NoResult
        /\ s >= 1 => << max_segmentation, max_likelihood >> # NoResult

(***************************************************************************)
(* C5, amended: the final pair of a run that produced no candidate differs *)
(* from the final pair of every run that produced a candidate of           *)
(* likelihood above 0.0; a run all of whose candidates have likelihood 0.0 *)
(* ends with the same pair ('', 0.0) as a run without a candidate, and     *)
(* only the count s of scored segmentations, 0 in a run without a          *)
(* candidate alone, tells the two apart.                                   *)
(***************************************************************************)
NoResultIsDistinctFromPositive ==
    (pc = "done") =>
        /\ s = Len(observed)
        /\ << max_segmentation, max_likelihood >> = NoResult
             <=> ~SomePositive(observed)

\* a run has ended whose candidates all have likelihood 0.0
NoResultWitness ==
    /\ pc = "done"
    /\ s >= 2
    /\ segmenter = "freq"
    /\ ~SomePositive(observed)
    /\ << max_segmentation, max_likelihood >> = NoResult

(***************************************************************************)
(* C10: an input of '.' and '-' alone always has a decoding, E and T being *)
(* in the table: no call of decode_all_possible in the decode command is   *)
(* made on a string that no code starts, and the count of letter           *)
(* sequences considered is at least 1 when the summary is printed.         *)
(***************************************************************************)
AlwaysSomeDecoding ==
    /\ \A j \in 1..Len(dstack) :
         Len(dstack[j].str) # 0 => MatchingAfter(dstack[j].str, 0) # {}
    /\ pc = "done" => i >= 1

\* the command has ended on an input that had blanks to strip
SomeDecodingWitness ==
    /\ pc = "done"
    /\ encoded = << ".", "-", "." >>
    /\ i = 4

(***************************************************************************)
(* C7: the combined search of the decode command terminates: every         *)
(* recursive call of either generator is made on a strictly shorter        *)
(* string than its caller's, and every run reaches the final summary.      *)
(***************************************************************************)
CallsShrink ==
    /\ (Len(dstack) >= 1 /\ Len(dstack') > Len(dstack)) =>
           Len(Top(dstack').str) < Len(Top(dstack).str)
    /\ (Len(sstack) >= 1 /\ Len(sstack') > Len(sstack)) =>
           Len(Top(sstack').str) < Len(Top(sstack).str)

SearchTerminates == [][CallsShrink]_vars /\ <>(pc = "done")

\* the summary is reached after several messages and several segmentations
SearchTerminatesWitness ==
    /\ pc = "done"
    /\ i >= 4
    /\ s >= 4
    /\ segmenter = "freq"

(***************************************************************************)
(* The two renderings of the generators agree: when the summary is         *)
(* printed, the frames have yielded what the functions list.               *)
(***************************************************************************)
RECURSIVE AllSegmentations(_, _)
AllSegmentations(wordlist, messages) ==
    IF Len(messages) = 0 THEN <<>>
    ELSE segment_words(wordlist, Head(messages))
           \o AllSegmentations(wordlist, Tail(messages))

GeneratorsAgree ==
    (pc = "done") =>
        /\ i = Len(decode_all_possible(encoded))
        /\ segmenter = "freq" =>
             observed = AllSegmentations(wordset, decode_all_possible(encoded))

=============================================================================
